---- MODULE Spec2Model ----
(***************************************************************************)
(* Model of the Home map screen of src/app/index.tsx.  The file holds two  *)
(* versions of the component: the first (lines 1-493) spaces its requests  *)
(* with REQUEST_INTERVAL_MS, the second (lines 495-1018) cancels the       *)
(* previous request with an AbortController and densifies the polyline.    *)
(* `version` selects which of the two is running.                          *)
(*                                                                         *)
(* The event loop is single threaded: every action below is one handler    *)
(* (or the continuation of one await) run to completion.                   *)
(***************************************************************************)
EXTENDS Integers, Sequences, FiniteSets, TLC

(* ---------------------------------------------------------------------- *)
(* Program constants                                                      *)
(* ---------------------------------------------------------------------- *)
DAILY_QUOTA == 2000

\* Math.floor(DAILY_QUOTA * 0.75)
SAFETY_LIMIT == (DAILY_QUOTA * 75) \div 100

REQUEST_INTERVAL_MS == 15000

\* location.coords.accuracy > 30 is ignored by the second version
ACCURACY_LIMIT == 30

(* ---------------------------------------------------------------------- *)
(* Bounds of the model                                                    *)
(* ---------------------------------------------------------------------- *)
\* calls of fetchRouteFromPoints observed in one behaviour
MaxFetchCalls == 2

\* a session is also observed from the point where Headroom requests remain
Headroom == 1

\* the clock advances at most MaxTicks times, by TickMs each
MaxTicks == 2

TickMs == REQUEST_INTERVAL_MS \div 2

\* Date.now() when the observation starts (late enough for a used quota)
StartTime == SAFETY_LIMIT * REQUEST_INTERVAL_MS

(* ---------------------------------------------------------------------- *)
(* Values                                                                 *)
(* ---------------------------------------------------------------------- *)
\* JavaScript null
Null == [null |-> TRUE]

\* type Coordinate = { latitude: number; longitude: number }
Coordinate(lat, lng) == [latitude |-> lat, longitude |-> lng]

\* event.nativeEvent.coordinate of the taps that are tried
TapPoints == {Coordinate(12, 76), Coordinate(14, 78)}

\* location.coords of the fixes that are tried: coordinate and accuracy
Fixes == {[latitude |-> 12, longitude |-> 76, accuracy |-> 10],
          [latitude |-> 12, longitude |-> 76, accuracy |-> 50]}

\* summary.distance (metres) and summary.duration (seconds) of the service
SummaryDistance == 12345

SummaryDuration == 1800

\* the summaries tried when the formatting is examined: every whole number of
\* metres and seconds up to a bound, and the values above
MaxMetres == 120

MaxSeconds == 100

Metres == (0 .. MaxMetres) \cup {1005, SummaryDistance}

Seconds == (0 .. MaxSeconds) \cup {SummaryDuration}

\* the polylines tried when the densification is examined: up to MaxPolyline
\* [longitude, latitude] pairs
MaxPolyline == 3

PolylinePairs == {<<lng, lat>> : lng \in {76, 77}, lat \in {12, 13, 14}}

RECURSIVE SeqsOfLen(_, _)
SeqsOfLen(S, n) ==
    IF n = 0 THEN {<< >>}
    ELSE {Append(q, x) : q \in SeqsOfLen(S, n - 1), x \in S}

Polylines == UNION {SeqsOfLen(PolylinePairs, n) : n \in 1 .. MaxPolyline}

VARIABLES
    version,            \* 1: first Home, 2: second Home
    apiKey,             \* ORS_API_KEY is set
    disableQuotaGuard,  \* DISABLE_QUOTA_GUARD
    region,             \* useState<Region | null>
    userLocation,       \* useState<Coordinate | null>
    startPoint,         \* useState<Coordinate | null>
    endPoint,           \* useState<Coordinate | null>
    routeCoords,        \* useState<Coordinate[]>
    distance,           \* useState<string | null>
    duration,           \* useState<string | null>
    requestCount,       \* requestCountRef.current
    lastRequestTime,    \* lastRequestTimeRef.current
    cancelTokenRef,     \* cancelTokenRef.current: id of the controller, or Null
    now,                \* Date.now()
    inflight,           \* axios.post calls that have not settled
    networkCalls,       \* number of axios.post calls of the session
    lastCallTime,       \* Date.now() at the latest axios.post (0: none yet)
    fetchCalls,         \* calls of fetchRouteFromPoints in this behaviour
    lastEvent           \* the handler that ran last, and how it ended

config == <<version, apiKey, disableQuotaGuard>>
view == <<region, userLocation, startPoint, endPoint, routeCoords, distance, duration>>
refs == <<requestCount, lastRequestTime, cancelTokenRef>>
vars == <<version, apiKey, disableQuotaGuard, region, userLocation, startPoint,
          endPoint, routeCoords, distance, duration, requestCount,
          lastRequestTime, cancelTokenRef, now, inflight, networkCalls,
          lastCallTime, fetchCalls, lastEvent>>
\* what only fetchRouteFromPoints changes
calls == <<inflight, networkCalls, lastCallTime, fetchCalls>>

(* ---------------------------------------------------------------------- *)
(* The directions request and the service's answer                        *)
(* ---------------------------------------------------------------------- *)
\* the body of axios.post: coordinates as [longitude, latitude] pairs
RequestBody(startLat, startLng, endLat, endLng) ==
    [coordinates |-> << <<startLng, startLat>>, <<endLng, endLat>> >>]

\* the ways a request can settle: a well-formed answer, an answer that lacks
\* one of the expected fields, a transport error, or the abort of its signal
ResponseShapes == {"ok", "noFeatures", "emptyFeatures", "noGeometry",
                   "noCoordinates", "noProperties", "noSummary",
                   "noDistance", "noDuration"}

Outcomes == ResponseShapes \cup {"networkError", "canceled"}

\* response.data of the service: the polyline, the summary, by shape
ServiceData(coordinates, metres, seconds, shape) ==
    LET geometry   == [coordinates |-> coordinates]
        summary    == [distance |-> metres, duration |-> seconds]
        properties == [summary |-> summary]
    IN CASE shape = "ok" ->
              [features |-> << [geometry |-> geometry, properties |-> properties] >>]
         [] shape = "noFeatures" ->
              [type |-> "FeatureCollection"]
         [] shape = "emptyFeatures" ->
              [features |-> << >>]
         [] shape = "noGeometry" ->
              [features |-> << [properties |-> properties] >>]
         [] shape = "noCoordinates" ->
              [features |-> << [geometry |-> [type |-> "LineString"],
                                properties |-> properties] >>]
         [] shape = "noProperties" ->
              [features |-> << [geometry |-> geometry] >>]
         [] shape = "noSummary" ->
              [features |-> << [geometry |-> geometry,
                                properties |-> [way_points |-> <<0, 1>>]] >>]
         [] shape = "noDistance" ->
              [features |-> << [geometry |-> geometry,
                                properties |-> [summary |-> [duration |-> seconds]]] >>]
         [] shape = "noDuration" ->
              [features |-> << [geometry |-> geometry,
                                properties |-> [summary |-> [distance |-> metres]]] >>]

\* response.data in the session model: the line from the requested start to
\* the requested end, with the one summary that is tried there
ResponseData(body, shape) ==
    ServiceData(body.coordinates, SummaryDistance, SummaryDuration, shape)

\* reading the answer throws a TypeError: a property is read of undefined
ParseThrows(data) ==
    \/ "features" \notin DOMAIN data
    \/ Len(data.features) = 0
    \/ "geometry" \notin DOMAIN data.features[1]
    \/ "coordinates" \notin DOMAIN data.features[1].geometry
    \/ "properties" \notin DOMAIN data.features[1]
    \/ "summary" \notin DOMAIN data.features[1].properties

\* the mapping with c[0] taken as the latitude
DecodeCoordsSwapped(coordinates) ==
    [i \in 1..Len(coordinates) |->
        [latitude |-> coordinates[i][1], longitude |-> coordinates[i][2]]]

\* feature.geometry.coordinates.map(c => ({latitude: c[1], longitude: c[0]}))
DecodeCoords(coordinates) ==
    [i \in 1..Len(coordinates) |->
        [latitude |-> coordinates[i][2], longitude |-> coordinates[i][1]]]

\* 2^k modulo m
RECURSIVE Pow2Mod(_, _)
Pow2Mod(k, m) == IF k = 0 THEN 1 % m ELSE (2 * Pow2Mod(k - 1, m)) % m

\* floor(log2(q)) for q >= 1
RECURSIVE Log2Floor(_)
Log2Floor(q) == IF q < 2 THEN 0 ELSE 1 + Log2Floor(q \div 2)

\* the least m with metres * 2^m >= 1000, for 0 < metres
RECURSIVE ShiftToUnit(_)
ShiftToUnit(metres) == IF metres >= 1000 THEN 0 ELSE 1 + ShiftToUnit(2 * metres)

\* metres / 1000 as an IEEE double is not below the real quotient.  With the
\* exponent e of the quotient, its 53-bit significand is metres * 2^(52-e) /
\* 1000 rounded to nearest, ties to even; the remainder of that division and
\* the parity of its quotient are read off metres * 2^(52-e) modulo 2000.
QuotientNotBelow(metres) ==
    LET e    == IF metres >= 1000 THEN Log2Floor(metres \div 1000)
                ELSE 0 - ShiftToUnit(metres)
        r    == ((metres % 2000) * Pow2Mod(52 - e, 2000)) % 2000
        rem  == r % 1000
        odd  == r >= 1000
    IN rem = 0 \/ rem > 500 \/ (rem = 500 /\ odd)

\* x.toFixed(2) for x = metres / 1000, in hundredths: the integer n with
\* n / 100 nearest to the double x, the larger n if two are equally near.
\* For whole metres only a last digit 5 puts the real quotient on a tie, and
\* then the side on which the double lies decides.
toFixed2(metres) ==
    IF metres % 10 = 5
    THEN IF metres > 0 /\ QuotientNotBelow(metres)
         THEN metres \div 10 + 1
         ELSE metres \div 10
    ELSE (metres + 5) \div 10

\* toFixed(2) cutting off the third decimal instead of rounding
FormatDistanceTruncates(summary) ==
    IF "distance" \in DOMAIN summary
    THEN [fixed2 |-> summary.distance \div 10, unit |-> " km"]
    ELSE [nan |-> TRUE, unit |-> " km"]

\* (summary.distance / 1000).toFixed(2) + " km"; a missing field gives NaN
FormatDistance(summary) ==
    IF "distance" \in DOMAIN summary
    THEN [fixed2 |-> toFixed2(summary.distance), unit |-> " km"]
    ELSE [nan |-> TRUE, unit |-> " km"]

\* Math.round(summary.duration / 60) + " min"; a missing field gives NaN
FormatDuration(summary) ==
    IF "duration" \in DOMAIN summary
    THEN [rounded |-> (2 * summary.duration + 60) \div 120, unit |-> " min"]
    ELSE [nan |-> TRUE, unit |-> " min"]

\* (a + b) / 2 in IEEE double arithmetic.  Latitudes and longitudes are held
\* as whole multiples of the unit in the last place of their binade (all
\* latitudes of a route in one binade, all longitudes in one).  The sum lies
\* in the next binade, where only even multiples exist: an odd sum is rounded
\* to the neighbour whose significand is even; halving is exact.
HalfOfSum(a, b) ==
    LET sum == a + b
    IN IF sum % 2 = 0 THEN sum \div 2
       ELSE IF ((sum - 1) \div 2) % 2 = 0 THEN (sum - 1) \div 2
       ELSE (sum + 1) \div 2

\* the midpoint without the division by 2
MidpointUnhalved(prev, point) ==
    [latitude  |-> prev.latitude + point.latitude,
     longitude |-> prev.longitude + point.longitude]

\* the midpoint inserted between prev and point
Midpoint(prev, point) ==
    [latitude  |-> HalfOfSum(prev.latitude, point.latitude),
     longitude |-> HalfOfSum(prev.longitude, point.longitude)]

\* coords.flatMap((point, index) => index === 0 ? [point] : [mid, point])
RECURSIVE FlatMapFrom(_, _)
FlatMapFrom(coords, index) ==
    IF index > Len(coords) THEN << >>
    ELSE (IF index = 1 THEN << coords[index] >>
          ELSE << Midpoint(coords[index - 1], coords[index]), coords[index] >>)
         \o FlatMapFrom(coords, index + 1)

smoothCoords(coords) == FlatMapFrom(coords, 1)

(* ---------------------------------------------------------------------- *)
(* Initial states                                                         *)
(* ---------------------------------------------------------------------- *)
\* the component right after it is mounted: the useState and useRef values
InitMounted ==
    /\ region = Null
    /\ userLocation = Null
    /\ startPoint = Null
    /\ endPoint = Null
    /\ routeCoords = << >>
    /\ distance = Null
    /\ duration = Null
    /\ requestCount = 0
    /\ lastRequestTime = 0
    /\ cancelTokenRef = Null
    /\ inflight = {}
    /\ networkCalls = 0
    /\ lastCallTime = 0

\* the same session later: all but Headroom requests of the safety limit
\* have been admitted and have settled, and the selection has been cleared
InitQuotaUsed ==
    /\ apiKey
    /\ \E fix \in Fixes :
          /\ region = Coordinate(fix.latitude, fix.longitude)
          /\ userLocation = Coordinate(fix.latitude, fix.longitude)
    /\ startPoint = Null
    /\ endPoint = Null
    /\ routeCoords = << >>
    /\ distance = Null
    /\ duration = Null
    /\ requestCount = SAFETY_LIMIT - Headroom
    /\ lastRequestTime = IF version = 1 THEN StartTime - REQUEST_INTERVAL_MS ELSE 0
    /\ cancelTokenRef = IF version = 2
                        THEN [controller |-> SAFETY_LIMIT - Headroom] ELSE Null
    /\ inflight = {}
    /\ networkCalls = SAFETY_LIMIT - Headroom
    /\ lastCallTime = StartTime - REQUEST_INTERVAL_MS

Init ==
    /\ version \in {1, 2}
    /\ apiKey \in BOOLEAN
    /\ disableQuotaGuard \in BOOLEAN
    /\ now = StartTime
    /\ fetchCalls = 0
    /\ lastEvent = [type |-> "mount"]
    /\ (InitMounted \/ InitQuotaUsed)

(* ---------------------------------------------------------------------- *)
(* fetchRouteFromPoints, up to the await                                  *)
(* ---------------------------------------------------------------------- *)
\* the credential check left out
MissingKeyIgnored == FALSE

\* if (!ORS_API_KEY)
MissingKey == ~apiKey

\* if (now - lastRequestTimeRef.current < REQUEST_INTERVAL_MS)
TooSoon == now - lastRequestTime < REQUEST_INTERVAL_MS

\* the quota check off by one: > for >=
QuotaReachedOffByOne == ~disableQuotaGuard /\ requestCount > SAFETY_LIMIT

\* if (!DISABLE_QUOTA_GUARD && requestCountRef.current >= SAFETY_LIMIT)
QuotaReached == ~disableQuotaGuard /\ requestCount >= SAFETY_LIMIT

\* how the first version's call ends: the order of its early returns
Decision1 ==
    IF MissingKey THEN "missingKey"
    ELSE IF TooSoon THEN "tooSoon"
    ELSE IF QuotaReached THEN "quota"
    ELSE "admitted"

\* how the second version's call ends: it has no interval check
Decision2 ==
    IF MissingKey THEN "missingKey"
    ELSE IF QuotaReached THEN "quota"
    ELSE "admitted"

\* the axios.post that a call admitted now leaves pending; a request and its
\* AbortController are identified by the ordinal of the request in the session
NewRequest(startLat, startLng, endLat, endLng) ==
    [id      |-> networkCalls + 1,
     body    |-> RequestBody(startLat, startLng, endLat, endLng),
     aborted |-> FALSE]

\* cancelTokenRef.current.abort(): the pending request of that controller
\* will reject with CanceledError; a settled request is not affected
Abort(pending) ==
    {IF [controller |-> r.id] = cancelTokenRef
     THEN [r EXCEPT !.aborted = TRUE] ELSE r : r \in pending}

\* first version
fetchRouteFromPoints1(startLat, startLng, endLat, endLng) ==
    /\ fetchCalls' = fetchCalls + 1
    /\ cancelTokenRef' = cancelTokenRef
    /\ IF Decision1 = "admitted"
       THEN /\ lastRequestTime' = now
            /\ requestCount' = requestCount + 1
            /\ inflight' = inflight \cup {NewRequest(startLat, startLng, endLat, endLng)}
            /\ networkCalls' = networkCalls + 1
            /\ lastCallTime' = now
       ELSE UNCHANGED <<lastRequestTime, requestCount, inflight, networkCalls,
                        lastCallTime>>

\* the second version without requestCountRef.current += 1
fetchRouteFromPoints2Uncounted(startLat, startLng, endLat, endLng) ==
    /\ fetchCalls' = fetchCalls + 1
    /\ lastRequestTime' = lastRequestTime
    /\ requestCount' = requestCount
    /\ CASE Decision2 = "missingKey" ->
              UNCHANGED <<cancelTokenRef, inflight, networkCalls, lastCallTime>>
         [] Decision2 = "quota" ->
              /\ inflight' = Abort(inflight)
              /\ UNCHANGED <<cancelTokenRef, networkCalls, lastCallTime>>
         [] Decision2 = "admitted" ->
              /\ cancelTokenRef' = [controller |-> networkCalls + 1]
              /\ inflight' = Abort(inflight)
                               \cup {NewRequest(startLat, startLng, endLat, endLng)}
              /\ networkCalls' = networkCalls + 1
              /\ lastCallTime' = now

\* second version
fetchRouteFromPoints2(startLat, startLng, endLat, endLng) ==
    /\ fetchCalls' = fetchCalls + 1
    /\ lastRequestTime' = lastRequestTime
    /\ CASE Decision2 = "missingKey" ->
              UNCHANGED <<cancelTokenRef, requestCount, inflight, networkCalls,
                          lastCallTime>>
         [] Decision2 = "quota" ->
              /\ inflight' = Abort(inflight)
              /\ UNCHANGED <<cancelTokenRef, requestCount, networkCalls, lastCallTime>>
         [] Decision2 = "admitted" ->
              /\ cancelTokenRef' = [controller |-> networkCalls + 1]
              /\ requestCount' = requestCount + 1
              /\ inflight' = Abort(inflight)
                               \cup {NewRequest(startLat, startLng, endLat, endLng)}
              /\ networkCalls' = networkCalls + 1
              /\ lastCallTime' = now

Decision == IF version = 1 THEN Decision1 ELSE Decision2

fetchRouteFromPoints(startLat, startLng, endLat, endLng) ==
    IF version = 1
    THEN fetchRouteFromPoints1(startLat, startLng, endLat, endLng)
    ELSE fetchRouteFromPoints2(startLat, startLng, endLat, endLng)

(* ---------------------------------------------------------------------- *)
(* The handlers                                                           *)
(* ---------------------------------------------------------------------- *)
\* the MapView and the buttons exist only once a region is known
Rendered == region # Null

\* setRouteCoords([]); setDistance(null); setDuration(null)
ClearRoute ==
    /\ routeCoords' = << >>
    /\ distance' = Null
    /\ duration' = Null

handleMapPress(coordinate) ==
    /\ Rendered
    /\ LET latitude  == coordinate.latitude
           longitude == coordinate.longitude
       IN IF startPoint = Null
          THEN /\ startPoint' = Coordinate(latitude, longitude)
               /\ ClearRoute
               /\ lastEvent' = [type |-> "press", coordinate |-> coordinate,
                                branch |-> "start"]
               /\ UNCHANGED <<endPoint, refs, calls>>
          ELSE IF endPoint = Null
          THEN /\ fetchCalls < MaxFetchCalls
               /\ endPoint' = Coordinate(latitude, longitude)
               /\ fetchRouteFromPoints(startPoint.latitude, startPoint.longitude,
                                       latitude, longitude)
               /\ lastEvent' = [type |-> "press", coordinate |-> coordinate,
                                branch |-> "destination", decision |-> Decision]
               /\ UNCHANGED <<startPoint, routeCoords, distance, duration>>
          ELSE /\ startPoint' = Coordinate(latitude, longitude)
               /\ endPoint' = Null
               /\ ClearRoute
               /\ lastEvent' = [type |-> "press", coordinate |-> coordinate,
                                branch |-> "reset"]
               /\ UNCHANGED <<refs, calls>>
    /\ UNCHANGED <<config, region, userLocation, now>>

\* the callback of Location.watchPositionAsync
watchPosition(location) ==
    /\ IF version = 2 /\ location.accuracy > ACCURACY_LIMIT
       THEN UNCHANGED <<userLocation, region>>
       ELSE /\ userLocation' = Coordinate(location.latitude, location.longitude)
            /\ region' = Coordinate(location.latitude, location.longitude)
    /\ lastEvent' = [type |-> "location"]
    /\ UNCHANGED <<config, startPoint, endPoint, routeCoords, distance, duration,
                   refs, now, calls>>

\* handleUseMyLocation behind a button that is rendered whatever startPoint is
handleUseMyLocationAlwaysOffered ==
    /\ Rendered
    /\ IF userLocation # Null
       THEN /\ startPoint' = userLocation
            /\ endPoint' = Null
            /\ ClearRoute
       ELSE UNCHANGED <<startPoint, endPoint, routeCoords, distance, duration>>
    /\ lastEvent' = [type |-> "useMyLocation"]
    /\ UNCHANGED <<config, region, userLocation, refs, now, calls>>

\* the "Use my location" button, rendered while !startPoint
handleUseMyLocation ==
    /\ Rendered
    /\ startPoint = Null
    /\ IF userLocation # Null
       THEN /\ startPoint' = userLocation
            /\ endPoint' = Null
            /\ ClearRoute
       ELSE UNCHANGED <<startPoint, endPoint, routeCoords, distance, duration>>
    /\ lastEvent' = [type |-> "useMyLocation"]
    /\ UNCHANGED <<config, region, userLocation, refs, now, calls>>

\* handleClearAll without setEndPoint(null)
handleClearAllKeepsEnd ==
    /\ startPoint' = Null
    /\ endPoint' = endPoint
    /\ ClearRoute
    /\ UNCHANGED <<config, region, userLocation, refs, now, calls>>

handleClearAll ==
    /\ startPoint' = Null
    /\ endPoint' = Null
    /\ ClearRoute
    /\ UNCHANGED <<config, region, userLocation, refs, now, calls>>

\* onLongPress of the MapView
LongPress ==
    /\ Rendered
    /\ handleClearAll
    /\ lastEvent' = [type |-> "longPress"]

\* the Clear button of the route card, rendered while distance && duration
ClearButton ==
    /\ Rendered
    /\ distance # Null
    /\ duration # Null
    /\ handleClearAll
    /\ lastEvent' = [type |-> "clear"]

(* ---------------------------------------------------------------------- *)
(* fetchRouteFromPoints, after the await                                  *)
(* ---------------------------------------------------------------------- *)
\* what the promise of a pending request can settle to
CanSettle(r, outcome) ==
    IF r.aborted THEN outcome = "canceled" ELSE outcome # "canceled"

\* the try block after the await commits the route
Commits(r, outcome) ==
    /\ outcome \in ResponseShapes
    /\ ~ParseThrows(ResponseData(r.body, outcome))

\* setDistance, setDuration, setRouteCoords of the try block
CommitRoute(data) ==
    LET feature == data.features[1]
        coords  == DecodeCoords(feature.geometry.coordinates)
        summary == feature.properties.summary
    IN /\ distance' = FormatDistance(summary)
       /\ duration' = FormatDuration(summary)
       /\ routeCoords' = IF version = 1 THEN coords ELSE smoothCoords(coords)

\* the catch block issuing the failed request again (an automatic retry)
fetchSettledRetries(r, outcome) ==
    /\ r \in inflight
    /\ CanSettle(r, outcome)
    /\ IF outcome = "networkError"
       THEN /\ inflight' = (inflight \ {r}) \cup {[r EXCEPT !.id = networkCalls + 1]}
            /\ networkCalls' = networkCalls + 1
       ELSE /\ inflight' = inflight \ {r}
            /\ networkCalls' = networkCalls
    /\ IF Commits(r, outcome)
       THEN CommitRoute(ResponseData(r.body, outcome))
       ELSE UNCHANGED <<routeCoords, distance, duration>>
    /\ lastEvent' = [type |-> "settled", outcome |-> outcome, request |-> r]
    /\ UNCHANGED <<config, region, userLocation, startPoint, endPoint, refs, now,
                   lastCallTime, fetchCalls>>

\* the continuation of the await: the try block, or the catch block
afterAwait(r, outcome) ==
    /\ r \in inflight
    /\ inflight' = inflight \ {r}
    /\ IF Commits(r, outcome)
       THEN CommitRoute(ResponseData(r.body, outcome))
       ELSE UNCHANGED <<routeCoords, distance, duration>>
    /\ lastEvent' = [type |-> "settled", outcome |-> outcome, request |-> r]
    /\ UNCHANGED <<config, region, userLocation, startPoint, endPoint, refs, now,
                   networkCalls, lastCallTime, fetchCalls>>

\* a pending request settles
fetchSettled(r, outcome) ==
    /\ CanSettle(r, outcome)
    /\ afterAwait(r, outcome)

\* time passes
Tick ==
    /\ now < StartTime + MaxTicks * TickMs
    /\ now' = now + TickMs
    /\ lastEvent' = [type |-> "tick"]
    /\ UNCHANGED <<config, view, refs, calls>>

Next ==
    \/ \E coordinate \in TapPoints : handleMapPress(coordinate)
    \/ \E location \in Fixes : watchPosition(location)
    \/ handleUseMyLocation
    \/ LongPress
    \/ ClearButton
    \/ \E r \in inflight : \E outcome \in Outcomes : fetchSettled(r, outcome)
    \/ Tick

Spec == Init /\ [][Next]_vars

(* ---------------------------------------------------------------------- *)
(* The session over a transport on which abort() may have no effect       *)
(* ---------------------------------------------------------------------- *)
\* an aborted request may reject with CanceledError or settle like any other
CanSettleAbortIgnored(r, outcome) == r.aborted \/ outcome # "canceled"

fetchSettledAbortIgnored(r, outcome) ==
    /\ CanSettleAbortIgnored(r, outcome)
    /\ afterAwait(r, outcome)

NextAbortIgnored ==
    \/ \E coordinate \in TapPoints : handleMapPress(coordinate)
    \/ \E location \in Fixes : watchPosition(location)
    \/ handleUseMyLocation
    \/ LongPress
    \/ ClearButton
    \/ \E r \in inflight : \E outcome \in Outcomes : fetchSettledAbortIgnored(r, outcome)
    \/ Tick

SpecAbortIgnored == Init /\ [][NextAbortIgnored]_vars

(* ---------------------------------------------------------------------- *)
(* One answer of the service, examined for all its values                 *)
(* ---------------------------------------------------------------------- *)
\* the session after mount, a location fix, a start tap and a destination
\* tap whose request was admitted and is pending
InitPending ==
    /\ version \in {1, 2}
    /\ apiKey = TRUE
    /\ disableQuotaGuard = FALSE
    /\ \E fix \in Fixes :
          /\ region = Coordinate(fix.latitude, fix.longitude)
          /\ userLocation = Coordinate(fix.latitude, fix.longitude)
    /\ \E start \in TapPoints, end \in TapPoints :
          /\ startPoint = start
          /\ endPoint = end
          /\ inflight = {[id      |-> 1,
                          body    |-> RequestBody(start.latitude, start.longitude,
                                                  end.latitude, end.longitude),
                          aborted |-> FALSE]}
          /\ lastEvent = [type |-> "press", coordinate |-> end,
                          branch |-> "destination", decision |-> "admitted"]
    /\ routeCoords = << >>
    /\ distance = Null
    /\ duration = Null
    /\ requestCount = 1
    /\ lastRequestTime = IF version = 1 THEN StartTime ELSE 0
    /\ cancelTokenRef = IF version = 2 THEN [controller |-> 1] ELSE Null
    /\ now = StartTime
    /\ networkCalls = 1
    /\ lastCallTime = StartTime
    /\ fetchCalls = 1

\* the continuation of the await for a given response.data
fetchAnswered(r, data) ==
    /\ r \in inflight
    /\ ~r.aborted
    /\ inflight' = inflight \ {r}
    /\ IF ParseThrows(data)
       THEN UNCHANGED <<routeCoords, distance, duration>>
       ELSE CommitRoute(data)
    /\ lastEvent' = [type |-> "answered", request |-> r, data |-> data]
    /\ UNCHANGED <<config, region, userLocation, startPoint, endPoint, refs, now,
                   networkCalls, lastCallTime, fetchCalls>>

\* the answer carries any of the summaries
AnswerSummary ==
    \E r \in inflight : \E metres \in Metres : \E seconds \in Seconds :
        fetchAnswered(r, ServiceData(r.body.coordinates, metres, seconds, "ok"))

\* the answer carries any of the polylines
AnswerPolyline ==
    \E r \in inflight : \E coordinates \in Polylines :
        fetchAnswered(r, ServiceData(coordinates, SummaryDistance, SummaryDuration, "ok"))

NextAnswer == AnswerSummary \/ AnswerPolyline

SpecAnswer == InitPending /\ [][NextAnswer]_vars

(* ---------------------------------------------------------------------- *)
(* Properties                                                             *)
(* ---------------------------------------------------------------------- *)
RouteUnset == routeCoords = << >> /\ distance = Null /\ duration = Null

\* the step is a destination tap, that is a call of fetchRouteFromPoints
DestinationTap == lastEvent'.type = "press" /\ lastEvent'.branch = "destination"

\* the step is the settlement of a request
Settlement == lastEvent'.type = "settled"

MalformedShapes == ResponseShapes \ {"ok"}

\* the configuration of the source: const DISABLE_QUOTA_GUARD = false
Shipped == ~disableQuotaGuard

\* C1: with the quota guard enabled the number of directions requests of the
\* session never exceeds SAFETY_LIMIT, and once requestCount has reached
\* SAFETY_LIMIT no step issues a request, in both versions.
C1_QuotaNeverExceeded ==
    [][~disableQuotaGuard =>
          /\ networkCalls' <= SAFETY_LIMIT
          /\ requestCount >= SAFETY_LIMIT => networkCalls' = networkCalls]_vars

\* C1 witness: the limit of 1500 requests is reached and a later destination
\* tap has been turned away by the quota check.
C1_Witness ==
    /\ ~disableQuotaGuard
    /\ SAFETY_LIMIT = 1500
    /\ networkCalls = SAFETY_LIMIT
    /\ requestCount = SAFETY_LIMIT
    /\ lastEvent.type = "press"
    /\ lastEvent.branch = "destination"
    /\ lastEvent.decision = "quota"

\* C2 (as claimed): every request is issued at least REQUEST_INTERVAL_MS after
\* the previous issued request, in every version (guard as shipped).
C2_MinInterval ==
    [][(Shipped /\ networkCalls' # networkCalls) =>
          now - lastCallTime >= REQUEST_INTERVAL_MS]_vars

\* C3 (as claimed): the settlement of a request that was pending when a later
\* request was admitted changes none of routeCoords, distance, duration
\* (guard as shipped).
C3_SupersededIsVoid ==
    [][(Shipped /\ Settlement /\ lastEvent'.request.id < networkCalls) =>
          UNCHANGED <<routeCoords, distance, duration>>]_vars

\* C4: startPoint and endPoint follow the three-state machine: a tap in Idle
\* sets the start, a tap in StartChosen sets the end and calls
\* fetchRouteFromPoints for (start, end), a tap in RouteReady restarts with
\* the tapped point, a long-press or Clear gives Idle; a location update, a
\* settlement of a fetch or the passing of time changes neither point.
C4_SelectionMachine ==
    [][LET e == lastEvent'
       IN /\ (e.type = "press" /\ startPoint = Null) =>
                /\ endPoint = Null
                /\ startPoint' = e.coordinate
                /\ endPoint' = Null
                /\ fetchCalls' = fetchCalls
          /\ (e.type = "press" /\ startPoint # Null /\ endPoint = Null) =>
                /\ startPoint' = startPoint
                /\ endPoint' = e.coordinate
                /\ fetchCalls' = fetchCalls + 1
                /\ e.decision = "admitted" =>
                      \E r \in inflight' \ inflight :
                          r.body = RequestBody(startPoint.latitude, startPoint.longitude,
                                               e.coordinate.latitude,
                                               e.coordinate.longitude)
          /\ (e.type = "press" /\ startPoint # Null /\ endPoint # Null) =>
                /\ startPoint' = e.coordinate
                /\ endPoint' = Null
                /\ fetchCalls' = fetchCalls
          /\ e.type \in {"longPress", "clear"} =>
                /\ startPoint' = Null
                /\ endPoint' = Null
          /\ e.type \in {"location", "settled", "tick"} =>
                UNCHANGED <<startPoint, endPoint>>]_vars

\* C4 witness: Idle, tap, tap, tap: the third tap has restarted the selection
\* while the fetch of the second tap is pending.
C4_Witness ==
    /\ lastEvent.type = "press"
    /\ lastEvent.branch = "reset"
    /\ startPoint = lastEvent.coordinate
    /\ endPoint = Null
    /\ inflight # {}

\* C5 (as claimed): while no start point or no end point is selected the
\* route result is unset (guard as shipped).
C5_NoRouteWithoutPair ==
    (Shipped /\ (startPoint = Null \/ endPoint = Null)) => RouteUnset

\* C6: without the API key a call of fetchRouteFromPoints issues no request
\* (the count of requests stays zero) and changes none of requestCount,
\* lastRequestTime, the pending requests, the controller, the route result.
C6_MissingKeyNoOp ==
    [][~apiKey =>
          /\ networkCalls' = 0
          /\ fetchCalls' # fetchCalls =>
                UNCHANGED <<requestCount, lastRequestTime, cancelTokenRef, inflight,
                            routeCoords, distance, duration>>]_vars

\* C6 witness: a destination tap has called fetchRouteFromPoints without key.
C6_Witness ==
    /\ ~apiKey
    /\ fetchCalls > 0
    /\ lastEvent.type = "press"
    /\ lastEvent.branch = "destination"
    /\ lastEvent.decision = "missingKey"
    /\ endPoint # Null

\* C7 (as claimed): a fetch that ends in a network error or in an answer that
\* lacks an expected field leaves routeCoords, distance, duration, startPoint
\* and endPoint as they were (guard as shipped).
C7_FailureKeepsRoute ==
    [][(Shipped /\ Settlement /\ lastEvent'.outcome \in MalformedShapes \cup {"networkError"}) =>
          UNCHANGED <<routeCoords, distance, duration, startPoint, endPoint>>]_vars

\* C8 (as claimed): a call rejected for quota or for spacing issues no
\* request, leaves requestCount, lastRequestTime and the route result alone
\* and does not cancel a pending request.
C8_RejectionIsNoOp ==
    [][(Shipped /\ DestinationTap /\ lastEvent'.decision \in {"quota", "tooSoon"}) =>
          UNCHANGED <<networkCalls, requestCount, lastRequestTime, routeCoords,
                      distance, duration, inflight>>]_vars

\* C9 (as claimed): with the guard enabled a call made while requestCount >=
\* SAFETY_LIMIT ends in the quota rejection, also when it is too soon; the
\* too-soon rejection happens only when the quota check has passed.
C9_QuotaBeforeSpacing ==
    [][(DestinationTap /\ apiKey) =>
          /\ (~disableQuotaGuard /\ requestCount >= SAFETY_LIMIT) =>
                lastEvent'.decision = "quota"
          /\ lastEvent'.decision = "tooSoon" =>
                /\ ~(~disableQuotaGuard /\ requestCount >= SAFETY_LIMIT)
                /\ now - lastRequestTime < REQUEST_INTERVAL_MS]_vars

\* C10: requestCount never decreases; it grows by exactly 1 in exactly the
\* steps that issue a request (the admitted destination taps, while the
\* request is still pending) and in no other step; the first version then
\* sets lastRequestTime to the time of the admission.
C10_CountMonotone ==
    [][/\ requestCount' \in {requestCount, requestCount + 1}
       /\ networkCalls' \in {networkCalls, networkCalls + 1}
       /\ (requestCount' = requestCount + 1) <=> (networkCalls' = networkCalls + 1)
       /\ (requestCount' = requestCount + 1) <=>
             (DestinationTap /\ lastEvent'.decision = "admitted")
       /\ requestCount' = requestCount + 1 =>
             /\ \E r \in inflight' \ inflight : r.id = networkCalls'
             /\ version = 1 => lastRequestTime' = now]_vars

\* C10 witness: two requests were counted and the first one, cancelled by the
\* second, has settled without the count going back.
C10_Witness ==
    /\ requestCount = 2
    /\ lastEvent.type = "settled"
    /\ lastEvent.outcome = "canceled"
    /\ lastEvent.request.id = 1

\* C11: only a destination tap attempts a request, and it attempts at most
\* one: every step that issues a request is a destination tap and issues
\* exactly one, every call of fetchRouteFromPoints is a destination tap, and
\* no other step (other taps, long-press, Clear, use-my-location, location
\* update, settlement) issues or re-issues a request; so the requests issued
\* never outnumber the destination taps.
C11_OnlyDestinationTapFetches ==
    [][/\ networkCalls' # networkCalls =>
             (DestinationTap /\ networkCalls' = networkCalls + 1)
       /\ DestinationTap => fetchCalls' = fetchCalls + 1
       /\ ~DestinationTap =>
             (fetchCalls' = fetchCalls /\ inflight' \subseteq inflight)
       /\ networkCalls' - networkCalls <= fetchCalls' - fetchCalls]_vars

\* C11 witness: of two destination taps one was rejected and the other's
\* request has failed; nothing is pending, nothing was retried.
C11_Witness ==
    /\ fetchCalls = 2
    /\ networkCalls = 1
    /\ inflight = {}
    /\ lastEvent.type = "settled"
    /\ lastEvent.outcome = "networkError"

\* the summary of the answer that the last step has committed
AnsweredSummary == lastEvent.data.features[1].properties.summary

\* C12 (as claimed): the displayed distance is d / 1000 rounded half up to
\* two decimals (the rule under which 12345 gives 12.35) and the displayed
\* duration is s / 60 rounded to the nearest minute.
C12_RoundedHalfUp ==
    lastEvent.type = "answered" =>
        /\ distance = [fixed2 |-> (AnsweredSummary.distance + 5) \div 10, unit |-> " km"]
        /\ duration = [rounded |-> (AnsweredSummary.duration + 30) \div 60,
                       unit |-> " min"]

\* C12 (amended): the displayed distance is a two-decimal value nearest to
\* d / 1000 (at most half a hundredth away, either neighbour when d ends in
\* 5), the displayed duration is s / 60 rounded to the nearest minute, halves
\* up; d = 12345 and s = 1800 give "12.35 km" and "30 min".
C12_NearestTwoDecimals ==
    lastEvent.type = "answered" =>
        LET d == AnsweredSummary.distance
            s == AnsweredSummary.duration
        IN /\ DOMAIN distance = {"fixed2", "unit"}
           /\ distance.unit = " km"
           /\ 10 * distance.fixed2 - 5 <= d
           /\ d <= 10 * distance.fixed2 + 5
           /\ d = 12345 => distance.fixed2 = 1235
           /\ duration = [rounded |-> (s + 30) \div 60, unit |-> " min"]
           /\ s = 1800 => duration.rounded = 30

\* C12 witness: the answer with 12345 m and 1800 s is displayed.
C12_Witness ==
    /\ lastEvent.type = "answered"
    /\ AnsweredSummary = [distance |-> 12345, duration |-> 1800]
    /\ distance = [fixed2 |-> 1235, unit |-> " km"]
    /\ duration = [rounded |-> 30, unit |-> " min"]

\* the polyline of the answer that the last step has committed, decoded
AnsweredCoords == DecodeCoords(lastEvent.data.features[1].geometry.coordinates)

\* length 2n - 1, both ends kept, input point k at output position 2k - 1
\* (positions counted from 1)
DensifiedShape(in, out) ==
    /\ Len(out) = 2 * Len(in) - 1
    /\ out[1] = in[1]
    /\ out[Len(out)] = in[Len(in)]
    /\ \A k \in 1 .. Len(in) : out[2 * k - 1] = in[k]

\* C13 (as claimed): the polyline stored by the second version has length
\* 2n - 1, keeps both ends and every input point in order, and every inserted
\* point is the exact midpoint of its two neighbours in the output.
C13_ExactMidpoints ==
    (lastEvent.type = "answered" /\ version = 2) =>
        /\ DensifiedShape(AnsweredCoords, routeCoords)
        /\ \A k \in 1 .. Len(AnsweredCoords) - 1 :
              /\ 2 * routeCoords[2 * k].latitude =
                    routeCoords[2 * k - 1].latitude + routeCoords[2 * k + 1].latitude
              /\ 2 * routeCoords[2 * k].longitude =
                    routeCoords[2 * k - 1].longitude + routeCoords[2 * k + 1].longitude

\* |2m - (a + b)| <= 1: m is within half a unit in the last place of the
\* midpoint of a and b
NearMidpoint(m, a, b) == 2 * m - (a + b) \in {-1, 0, 1}

\* C13 (amended): the polyline stored by the second version has length
\* 2n - 1, keeps both ends and every input point in order, and every inserted
\* point is the double nearest to the midpoint of its two neighbours: the
\* exact midpoint when it is a double, else half a unit in the last place off.
C13_NearestMidpoints ==
    (lastEvent.type = "answered" /\ version = 2) =>
        /\ DensifiedShape(AnsweredCoords, routeCoords)
        /\ \A k \in 1 .. Len(AnsweredCoords) - 1 :
              /\ NearMidpoint(routeCoords[2 * k].latitude,
                              routeCoords[2 * k - 1].latitude,
                              routeCoords[2 * k + 1].latitude)
              /\ NearMidpoint(routeCoords[2 * k].longitude,
                              routeCoords[2 * k - 1].longitude,
                              routeCoords[2 * k + 1].longitude)

\* C13 witness: a polyline of three points is stored as five, one of the
\* inserted points exact and one rounded.
C13_Witness ==
    /\ lastEvent.type = "answered"
    /\ version = 2
    /\ Len(AnsweredCoords) = 3
    /\ Len(routeCoords) = 5
    /\ 2 * routeCoords[2].latitude = routeCoords[1].latitude + routeCoords[3].latitude
    /\ 2 * routeCoords[4].latitude # routeCoords[3].latitude + routeCoords[5].latitude

\* the coordinates a selection can hold: tapped points and location fixes
SelectablePoints ==
    TapPoints \cup {Coordinate(fix.latitude, fix.longitude) : fix \in Fixes}

\* C14: a coordinate encoded as [longitude, latitude] for the request and
\* decoded by the response mapping comes back unchanged: the request of an
\* admitted destination tap carries [start.longitude, start.latitude] first
\* and [end.longitude, end.latitude] second, and when the service answers
\* with the same pairs the first version stores exactly <<start, end>>.
C14_CoordinateRoundTrip ==
    [][/\ (DestinationTap /\ lastEvent'.decision = "admitted") =>
             \E r \in inflight' \ inflight :
                 r.body.coordinates =
                     << <<startPoint.longitude, startPoint.latitude>>,
                        <<lastEvent'.coordinate.longitude,
                          lastEvent'.coordinate.latitude>> >>
       /\ (Settlement /\ lastEvent'.outcome = "ok" /\ version = 1) =>
             \E start \in SelectablePoints, end \in SelectablePoints :
                 /\ lastEvent'.request.body.coordinates =
                        << <<start.longitude, start.latitude>>,
                           <<end.longitude, end.latitude>> >>
                 /\ routeCoords' = <<start, end>>]_vars

\* C14 witness: the route from one point to a different one has come back
\* and is stored as the selected pair.
C14_Witness ==
    /\ lastEvent.type = "settled"
    /\ lastEvent.outcome = "ok"
    /\ version = 1
    /\ startPoint # Null
    /\ endPoint # Null
    /\ startPoint # endPoint
    /\ routeCoords = <<startPoint, endPoint>>

\* C15 (as claimed): when the abort of a superseded request has no effect
\* and its well-formed answer is delivered all the same, that settlement
\* changes none of routeCoords, distance, duration, startPoint, endPoint
\* (guard as shipped).
C15_StaleAnswerDiscarded ==
    [][(Shipped /\ Settlement /\ lastEvent'.request.aborted
           /\ lastEvent'.outcome = "ok") =>
          UNCHANGED <<routeCoords, distance, duration, startPoint, endPoint>>]_vars

\* C16: "Use my location" is taken only while no start point is selected, and
\* then no end point is selected either; with a known userLocation it selects
\* userLocation as the start, leaves the end point and the route result unset
\* and issues no request; with userLocation null it changes nothing.
C16_UseMyLocation ==
    [][lastEvent'.type = "useMyLocation" =>
          /\ startPoint = Null
          /\ endPoint = Null
          /\ UNCHANGED <<refs, calls>>
          /\ IF userLocation # Null
             THEN /\ startPoint' = userLocation
                  /\ endPoint' = Null
                  /\ routeCoords' = << >>
                  /\ distance' = Null
                  /\ duration' = Null
             ELSE UNCHANGED view]_vars

\* "Use my location" has been taken while a request was pending
C16_Witness ==
    /\ lastEvent.type = "useMyLocation"
    /\ startPoint = userLocation
    /\ startPoint # Null
    /\ endPoint = Null
    /\ RouteUnset
    /\ inflight # {}

\* C17 (as claimed): with the quota guard disabled no destination tap is
\* rejected for quota, and a destination tap less than REQUEST_INTERVAL_MS
\* after the last issued request is rejected as too soon.
C17_BypassKeepsSpacing ==
    [][(disableQuotaGuard /\ apiKey /\ DestinationTap) =>
          /\ lastEvent'.decision # "quota"
          /\ (networkCalls > 0 /\ now - lastCallTime < REQUEST_INTERVAL_MS) =>
                 lastEvent'.decision = "tooSoon"]_vars

\* C18 (as claimed): a displayed route result is the one of the selected pair:
\* both points are selected and the line runs from startPoint to endPoint
\* (guard as shipped).
C18_RouteOfSelectedPair ==
    (Shipped /\ ~RouteUnset) =>
        /\ startPoint # Null
        /\ endPoint # Null
        /\ routeCoords # << >>
        /\ routeCoords[1] = startPoint
        /\ routeCoords[Len(routeCoords)] = endPoint

\* C19: an end point is never selected without a start point.
C19_EndImpliesStart == endPoint # Null => startPoint # Null

\* both points are selected again after the selection was cleared with a
\* request pending, and that request has settled
C19_Witness ==
    /\ endPoint # Null
    /\ startPoint # Null
    /\ lastEvent.type = "settled"
    /\ fetchCalls >= 2

====
